---- MODULE Spec2Model ----
(***************************************************************************)
(* cf_speedtest (src/src/main.rs): the download phase followed by the      *)
(* upload phase of main(), with the worker threads each phase spawns.      *)
(*                                                                         *)
(* The main thread is the controller.  Every thread is modelled by its     *)
(* position (pc) and its locals; one action is one step between two        *)
(* accesses of shared state (an atomic, the clock, a thread handle).       *)
(***************************************************************************)
EXTENDS Integers, Sequences, FiniteSets, TLC

(***************************************************************************)
(* Bounds of the model.                                                    *)
(***************************************************************************)
\* Threads spawned at the start of each phase.  The program spawns 4
\* (download_thread_count, upload_thread_count); the model spawns this many.
InitialThreads == 2

\* Threads one phase may spawn, the initial ones and those added by scaling.
MaxThreads == 3

\* Bytes the network moves in one run, both phases together.
MaxBytes == 4

\* Bytes of one upload session.  The program sends 50 MiB (BYTES_TO_UPLOAD).
QuotaBytes == 4

\* Largest factor by which a measurement history is multiplied.
MaxFactor == 3

(***************************************************************************)
(* Program constants.                                                      *)
(***************************************************************************)
download_thread_count == InitialThreads
upload_thread_count == InitialThreads
BYTES_TO_UPLOAD == QuotaBytes

\* get_secs_since_unix_epoch() + 12
BaseDuration == 12

\* down_deadline += 1, up_deadline += 1
DeadlineStep == 1

\* Seconds by which the clock moves on while the controller sleeps 1000 ms:
\* the sleep lasts at least one second and may cross two second boundaries.
\* The clock moves only in these steps; the threads' steps take no time.
SleepSecs == {1, 2}

\* Buffer lengths the HTTP client hands to UploadHelper::read.
BufLens == {4}

\* Per-tick samples from which the histories of TrendSpec are drawn.
TrendSamples == {0, 1, 1000, 1199, 1200}

(***************************************************************************)
(* Pure functions.                                                         *)
(***************************************************************************)
\* download_test: the receive buffer chosen from the current download speed.
ChunkSizeFor(speed) ==
    IF speed <= 1000 THEN 4
    ELSE IF speed <= 10000 THEN 32
    ELSE IF speed <= 100000 THEN 512
    ELSE IF speed <= 1000000 THEN 4096
    ELSE 16384

\* What one std::io::copy of take(buf) can sink: the whole buffer, or nothing
\* at the end of the body.
ReadSizes(buf) == {0, buf}

\* Mutant: an absolute margin in place of the relative one.
ExceedsGrowth_Absolute(last_3_avg, prev_3_avg) == last_3_avg > prev_3_avg + 200

\* last_3_avg as f64 > prev_3_avg as f64 + ((prev_3_avg as f64 / 3.0) * 0.2).
\* The right-hand side is prev * 16/15.  For averages below 2^47 the f64
\* arithmetic decides exactly as the integers do: 16*prev/15 is either an
\* integer (prev = 15m: prev/3.0 = 5m exactly, 5m*0.2 rounds to m, prev+m is
\* exact) or at least 1/15 away from every integer, far more than the
\* rounding error.
ExceedsGrowth(last_3_avg, prev_3_avg) == 15 * last_3_avg > 16 * prev_3_avg

\* sum::<u64>() / 3 of three samples: integer division truncates.
Avg3(a, b, c) == (a + b + c) \div 3

\* The scaling decision on a measurement history (main.rs 340-349, 450-459).
ShouldScale(m) ==
    /\ Len(m) > 6
    /\ LET n == Len(m)
           last_3_avg == Avg3(m[n - 2], m[n - 1], m[n])
           prev_3_avg == Avg3(m[n - 5], m[n - 4], m[n - 3])
       IN  ExceedsGrowth(last_3_avg, prev_3_avg)

(***************************************************************************)
(* State.                                                                  *)
(***************************************************************************)
VARIABLES
    pc,                               \* position of the main thread
    now,                              \* get_secs_since_unix_epoch()
    exit_signal,                      \* Arc<AtomicBool>
    total_downloaded_bytes_counter,   \* Arc<AtomicU64>
    total_uploaded_bytes_counter,     \* Arc<AtomicU64>
    current_down_speed,               \* Arc<AtomicU64>
    down_deadline,
    down_handles,                     \* the threads behind the JoinHandles
    last_bytes_down,
    bytes_down,
    down_measurements,
    up_deadline,
    up_handles,
    last_bytes_up,
    bytes_up,
    up_measurements,
    \* History variables: they record what happened and are never read by
    \* the program.
    down_spawned, down_joined, down_transferred,
    up_spawned, up_joined, up_transferred

ctlVars == <<pc, now, exit_signal, current_down_speed>>
downVars == <<total_downloaded_bytes_counter, down_deadline, down_handles,
              last_bytes_down, bytes_down, down_measurements,
              down_spawned, down_joined, down_transferred>>
upVars == <<total_uploaded_bytes_counter, up_deadline, up_handles,
            last_bytes_up, bytes_up, up_measurements,
            up_spawned, up_joined, up_transferred>>
ctlVars_but_pc == <<now, exit_signal, current_down_speed>>
vars == <<ctlVars, downVars, upVars>>

\* A download thread: position, and the locals of download_test.
DownThread == [pc |-> "call", total_bytes_sank |-> 0, current_recv_buff |-> 0]

\* Positions at which a thread has ended.
Ended == {"returned", "errored", "panicked"}

\* The state at line 285: the counters and the exit signal are created, the
\* download deadline is taken (the clock starts at 0), no thread exists.
\* up_deadline is declared at 405; until then it is 0.
Init ==
    /\ pc = "d_spawn"
    /\ now = 0
    /\ exit_signal = FALSE
    /\ total_downloaded_bytes_counter = 0
    /\ total_uploaded_bytes_counter = 0
    /\ current_down_speed = 0
    /\ down_deadline = 0 + BaseDuration
    /\ down_handles = <<>>
    /\ last_bytes_down = 0
    /\ bytes_down = 0
    /\ down_measurements = <<>>
    /\ up_deadline = 0
    /\ up_handles = <<>>
    /\ last_bytes_up = 0
    /\ bytes_up = 0
    /\ up_measurements = <<>>
    /\ down_spawned = 0 /\ down_joined = 0 /\ down_transferred = 0
    /\ up_spawned = 0 /\ up_joined = 0 /\ up_transferred = 0

(***************************************************************************)
(* Download phase: the controller (main.rs 285-399).                       *)
(***************************************************************************)
\* One iteration of the spawn loop (286-313).
DownSpawnInitial ==
    /\ pc = "d_spawn"
    /\ down_handles' = Append(down_handles, DownThread)
    /\ down_spawned' = down_spawned + 1
    /\ pc' = IF Len(down_handles) + 1 = download_thread_count
             THEN "d_reset" ELSE "d_spawn"
    /\ UNCHANGED <<now, exit_signal, current_down_speed, upVars,
                   total_downloaded_bytes_counter, down_deadline,
                   last_bytes_down, bytes_down, down_measurements,
                   down_joined, down_transferred>>

\* Mutant: last_bytes_down takes the value the counter had before it is
\* stored to 0.
DownReset_KeepsCount ==
    /\ pc = "d_reset"
    /\ last_bytes_down' = total_downloaded_bytes_counter
    /\ total_downloaded_bytes_counter' = 0
    /\ down_measurements' = <<>>
    /\ pc' = "d_sample"
    /\ UNCHANGED <<now, exit_signal, current_down_speed, upVars,
                   down_deadline, down_handles, bytes_down,
                   down_spawned, down_joined, down_transferred>>

\* 315-318: the counter is stored to 0 after the threads were spawned.
DownReset ==
    /\ pc = "d_reset"
    /\ last_bytes_down' = 0
    /\ total_downloaded_bytes_counter' = 0
    /\ down_measurements' = <<>>
    /\ pc' = "d_sample"
    /\ UNCHANGED <<now, exit_signal, current_down_speed, upVars,
                   down_deadline, down_handles, bytes_down,
                   down_spawned, down_joined, down_transferred>>

\* Mutant: the deadline is extended in every tick that has more than six
\* samples, whether or not the tick decides to scale.
DownSample_ExtendsEveryTick ==
    /\ pc = "d_sample"
    /\ LET loaded == total_downloaded_bytes_counter
           bytes_down_diff == loaded - last_bytes_down
           measurements == Append(down_measurements, bytes_down_diff)
       IN  /\ bytes_down' = loaded
           /\ current_down_speed' = bytes_down_diff
           /\ down_measurements' = measurements
           /\ down_deadline' = IF Len(measurements) > 6
                               THEN down_deadline + DeadlineStep
                               ELSE down_deadline
           /\ IF ShouldScale(measurements)
              THEN /\ down_spawned < MaxThreads
                   /\ down_handles' = Append(down_handles, DownThread)
                   /\ down_spawned' = down_spawned + 1
              ELSE UNCHANGED <<down_handles, down_spawned>>
    /\ pc' = "d_sleep"
    /\ UNCHANGED <<now, exit_signal, upVars, total_downloaded_bytes_counter,
                   last_bytes_down, down_joined, down_transferred>>

\* 323-379: sample the counter, publish the speed, decide on scaling.  The
\* progress line (330-338) prints and changes nothing.  A decision to scale
\* beyond MaxThreads threads is not explored.
DownSample ==
    /\ pc = "d_sample"
    /\ LET loaded == total_downloaded_bytes_counter
           bytes_down_diff == loaded - last_bytes_down
           measurements == Append(down_measurements, bytes_down_diff)
       IN  /\ bytes_down' = loaded
           /\ current_down_speed' = bytes_down_diff
           /\ down_measurements' = measurements
           /\ IF ShouldScale(measurements)
              THEN /\ down_spawned < MaxThreads
                   /\ down_deadline' = down_deadline + DeadlineStep
                   /\ down_handles' = Append(down_handles, DownThread)
                   /\ down_spawned' = down_spawned + 1
              ELSE UNCHANGED <<down_deadline, down_handles, down_spawned>>
    /\ pc' = "d_sleep"
    /\ UNCHANGED <<now, exit_signal, upVars, total_downloaded_bytes_counter,
                   last_bytes_down, down_joined, down_transferred>>

\* Mutant: the counter value of this tick is not remembered, so every
\* sample is the counter itself.
DownSleep_KeepsLast ==
    /\ pc = "d_sleep"
    /\ \E d \in SleepSecs : now' = now + d
    /\ pc' = "d_check"
    /\ UNCHANGED <<exit_signal, current_down_speed, upVars,
                   total_downloaded_bytes_counter, down_deadline, down_handles,
                   last_bytes_down, bytes_down, down_measurements,
                   down_spawned, down_joined, down_transferred>>

\* 382-384: sleep 1000 ms, then remember the counter value of this tick.
DownSleep ==
    /\ pc = "d_sleep"
    /\ \E d \in SleepSecs : now' = now + d
    /\ last_bytes_down' = bytes_down
    /\ pc' = "d_check"
    /\ UNCHANGED <<exit_signal, current_down_speed, upVars,
                   total_downloaded_bytes_counter, down_deadline, down_handles,
                   bytes_down, down_measurements,
                   down_spawned, down_joined, down_transferred>>

\* Mutant: the upload phase is started right after the loop, the join loop
\* of 397-399 left out.
DownCheckDeadline_SkipJoin ==
    /\ pc = "d_check"
    /\ IF now > down_deadline
       THEN exit_signal' = TRUE /\ pc' = "u_init"
       ELSE exit_signal' = exit_signal /\ pc' = "d_sample"
    /\ UNCHANGED <<now, current_down_speed, downVars, upVars>>

\* Mutant: the loop is left past the deadline without the store of 391.
DownCheckDeadline_NoStore ==
    /\ pc = "d_check"
    /\ pc' = IF now > down_deadline THEN "d_join" ELSE "d_sample"
    /\ UNCHANGED <<now, exit_signal, current_down_speed, downVars, upVars>>

\* 390-393: past the deadline, raise the exit signal and leave the loop.
DownCheckDeadline ==
    /\ pc = "d_check"
    /\ IF now > down_deadline
       THEN exit_signal' = TRUE /\ pc' = "d_join"
       ELSE exit_signal' = exit_signal /\ pc' = "d_sample"
    /\ UNCHANGED <<now, current_down_speed, downVars, upVars>>

\* Mutant: the store of 402 placed before the join loop, so the exit signal
\* is back to false while the download threads are being joined.
DownJoin_ResetFirst ==
    /\ pc = "d_join"
    /\ down_handles # <<>>
    /\ exit_signal' = FALSE
    /\ Head(down_handles).pc \in Ended
    /\ IF Head(down_handles).pc = "panicked"
       THEN /\ pc' = "panicked"
            /\ UNCHANGED <<down_handles, down_joined>>
       ELSE /\ down_handles' = Tail(down_handles)
            /\ down_joined' = down_joined + 1
            /\ pc' = IF Tail(down_handles) = <<>> THEN "u_init" ELSE "d_join"
    /\ UNCHANGED <<now, current_down_speed, upVars,
                   total_downloaded_bytes_counter, down_deadline,
                   last_bytes_down, bytes_down, down_measurements,
                   down_spawned, down_transferred>>

\* Mutant: only the handles of the initial threads are joined; the handles
\* pushed by scaling are dropped with the vector.
DownJoin_InitialOnly ==
    /\ pc = "d_join"
    /\ down_handles # <<>>
    /\ Head(down_handles).pc \in Ended
    /\ IF Head(down_handles).pc = "panicked"
       THEN /\ pc' = "panicked"
            /\ UNCHANGED <<down_handles, down_joined>>
       ELSE /\ down_joined' = down_joined + 1
            /\ IF down_joined + 1 = download_thread_count
               THEN down_handles' = <<>> /\ pc' = "u_init"
               ELSE down_handles' = Tail(down_handles) /\ pc' = "d_join"
    /\ UNCHANGED <<now, exit_signal, current_down_speed, upVars,
                   total_downloaded_bytes_counter, down_deadline,
                   last_bytes_down, bytes_down, down_measurements,
                   down_spawned, down_transferred>>

\* 397-399: handle.join().expect(..) on the next handle.  The loop consumes
\* down_handles; a thread that panicked makes join() return Err and the
\* expect panics the main thread.
DownJoin ==
    /\ pc = "d_join"
    /\ down_handles # <<>>
    /\ Head(down_handles).pc \in Ended
    /\ IF Head(down_handles).pc = "panicked"
       THEN /\ pc' = "panicked"
            /\ UNCHANGED <<down_handles, down_joined>>
       ELSE /\ down_handles' = Tail(down_handles)
            /\ down_joined' = down_joined + 1
            /\ pc' = IF Tail(down_handles) = <<>> THEN "u_init" ELSE "d_join"
    /\ UNCHANGED <<now, exit_signal, current_down_speed, upVars,
                   total_downloaded_bytes_counter, down_deadline,
                   last_bytes_down, bytes_down, down_measurements,
                   down_spawned, down_transferred>>

(***************************************************************************)
(* Download phase: a worker thread (main.rs 290-311, 356-375) running      *)
(* download_test (194-239).  The main thread's panic ends the process, so  *)
(* no thread steps once pc = "panicked".                                   *)
(***************************************************************************)
Running == pc # "panicked"

DownSet(i, t) == down_handles' = [down_handles EXCEPT ![i] = t]

\* 198-204: open the request.  ureq's call() fails on a transport error and
\* on a status of 400 or more, and the expect panics the thread.
DownOpen(i, ok) ==
    /\ Running
    /\ down_handles[i].pc = "call"
    /\ DownSet(i, IF ok
                  THEN [pc |-> "loop", total_bytes_sank |-> 0,
                        current_recv_buff |-> 0]
                  ELSE [pc |-> "panicked", total_bytes_sank |-> 0,
                        current_recv_buff |-> 0])
    /\ UNCHANGED <<ctlVars, upVars, total_downloaded_bytes_counter,
                   down_deadline, last_bytes_down, bytes_down,
                   down_measurements, down_spawned, down_joined,
                   down_transferred>>

\* Mutant: the read loop does not look at the exit signal; only the loop
\* around the sessions does.
DownLoopTop_IgnoresStop(i) ==
    /\ Running
    /\ down_handles[i].pc = "loop"
    /\ DownSet(i, [down_handles[i] EXCEPT
                     !.pc = "copy",
                     !.current_recv_buff = ChunkSizeFor(current_down_speed)])
    /\ UNCHANGED <<ctlVars, upVars, total_downloaded_bytes_counter,
                   down_deadline, last_bytes_down, bytes_down,
                   down_measurements, down_spawned, down_joined,
                   down_transferred>>

\* 208-222: the top of the read loop: leave on the exit signal, else choose
\* the receive buffer from the published speed.
DownLoopTop(i) ==
    /\ Running
    /\ down_handles[i].pc = "loop"
    /\ DownSet(i, IF exit_signal
                  THEN [pc |-> "exit_check", total_bytes_sank |-> 0,
                        current_recv_buff |-> 0]
                  ELSE [down_handles[i] EXCEPT
                          !.pc = "copy",
                          !.current_recv_buff = ChunkSizeFor(current_down_speed)])
    /\ UNCHANGED <<ctlVars, upVars, total_downloaded_bytes_counter,
                   down_deadline, last_bytes_down, bytes_down,
                   down_measurements, down_spawned, down_joined,
                   down_transferred>>

\* 225: the read fails; `?` returns the error and the thread logs it and
\* returns (299-302).
DownCopyErr(i) ==
    /\ Running
    /\ down_handles[i].pc = "copy"
    /\ DownSet(i, [pc |-> "errored", total_bytes_sank |-> 0,
                   current_recv_buff |-> 0])
    /\ UNCHANGED <<ctlVars, upVars, total_downloaded_bytes_counter,
                   down_deadline, last_bytes_down, bytes_down,
                   down_measurements, down_spawned, down_joined,
                   down_transferred>>

\* Mutant: every empty read is taken for a broken response, whether or not
\* the session has sunk bytes before.
DownCopy_PanicsOnEmpty(i, n) ==
    /\ Running
    /\ down_handles[i].pc = "copy"
    /\ down_transferred + up_transferred + n <= MaxBytes
    /\ IF n = 0
       THEN /\ DownSet(i, [pc |-> "panicked", total_bytes_sank |-> 0,
                           current_recv_buff |-> 0])
            /\ UNCHANGED <<total_downloaded_bytes_counter, down_transferred>>
       ELSE /\ DownSet(i, [pc |-> "loop",
                           total_bytes_sank |->
                               down_handles[i].total_bytes_sank + n,
                           current_recv_buff |-> 0])
            /\ total_downloaded_bytes_counter' =
                   total_downloaded_bytes_counter + n
            /\ down_transferred' = down_transferred + n
    /\ UNCHANGED <<ctlVars, upVars, down_deadline, last_bytes_down,
                   bytes_down, down_measurements, down_spawned, down_joined>>

\* 225-235: the read sinks n bytes.
DownCopy(i, n) ==
    /\ Running
    /\ down_handles[i].pc = "copy"
    /\ down_transferred + up_transferred + n <= MaxBytes
    /\ IF n = 0
       THEN /\ DownSet(i, IF down_handles[i].total_bytes_sank = 0
                          THEN [pc |-> "panicked", total_bytes_sank |-> 0,
                                current_recv_buff |-> 0]
                          ELSE [pc |-> "exit_check", total_bytes_sank |-> 0,
                                current_recv_buff |-> 0])
            /\ UNCHANGED <<total_downloaded_bytes_counter, down_transferred>>
       ELSE /\ DownSet(i, [pc |-> "loop",
                           total_bytes_sank |->
                               down_handles[i].total_bytes_sank + n,
                           current_recv_buff |-> 0])
            /\ total_downloaded_bytes_counter' =
                   total_downloaded_bytes_counter + n
            /\ down_transferred' = down_transferred + n
    /\ UNCHANGED <<ctlVars, upVars, down_deadline, last_bytes_down,
                   bytes_down, down_measurements, down_spawned, down_joined>>

\* 306-309: after a session that returned Ok, return on the exit signal,
\* else start the next session.
DownExitCheck(i) ==
    /\ Running
    /\ down_handles[i].pc = "exit_check"
    /\ DownSet(i, [pc |-> IF exit_signal THEN "returned" ELSE "call",
                   total_bytes_sank |-> 0, current_recv_buff |-> 0])
    /\ UNCHANGED <<ctlVars, upVars, total_downloaded_bytes_counter,
                   down_deadline, last_bytes_down, bytes_down,
                   down_measurements, down_spawned, down_joined,
                   down_transferred>>

NextDown ==
    \/ DownSpawnInitial
    \/ DownReset
    \/ DownSample
    \/ DownSleep
    \/ DownCheckDeadline
    \/ DownJoin
    \/ \E i \in DOMAIN down_handles, ok \in BOOLEAN : DownOpen(i, ok)
    \/ \E i \in DOMAIN down_handles : DownLoopTop(i)
    \/ \E i \in DOMAIN down_handles : DownCopyErr(i)
    \/ \E i \in DOMAIN down_handles :
           /\ down_handles[i].pc = "copy"
           /\ \E n \in ReadSizes(down_handles[i].current_recv_buff) :
                  DownCopy(i, n)
    \/ \E i \in DOMAIN down_handles : DownExitCheck(i)

(***************************************************************************)
(* Between the phases (main.rs 401-405).                                   *)
(***************************************************************************)
\* The exit signal is re-used: stored to false, and the upload deadline is
\* taken from the clock.
UpInit ==
    /\ pc = "u_init"
    /\ exit_signal' = FALSE
    /\ up_deadline' = now + BaseDuration
    /\ pc' = "u_spawn"
    /\ UNCHANGED <<now, current_down_speed, downVars,
                   total_uploaded_bytes_counter, up_handles, last_bytes_up,
                   bytes_up, up_measurements, up_spawned, up_joined,
                   up_transferred>>

(***************************************************************************)
(* Upload phase: the controller (main.rs 408-504).                         *)
(***************************************************************************)
\* An upload thread: position, whether it is one of the initial threads,
\* the up_deadline its closure captured by value (u64 is Copy), and the
\* bytes_to_send and byte_ctr of the UploadHelper of its current session.
UpThread(initial, captured) ==
    [pc |-> "send", initial |-> initial, up_deadline |-> captured,
     bytes_to_send |-> BYTES_TO_UPLOAD, byte_ctr |-> 0]

\* One iteration of the spawn loop (409-429).
UpSpawnInitial ==
    /\ pc = "u_spawn"
    /\ up_handles' = Append(up_handles, UpThread(TRUE, up_deadline))
    /\ up_spawned' = up_spawned + 1
    /\ pc' = IF Len(up_handles) + 1 = upload_thread_count
             THEN "u_reset" ELSE "u_spawn"
    /\ UNCHANGED <<ctlVars_but_pc, downVars, total_uploaded_bytes_counter,
                   up_deadline, last_bytes_up, bytes_up, up_measurements,
                   up_joined, up_transferred>>

\* 431-433: the counter is stored to 0 after the threads were spawned.
UpReset ==
    /\ pc = "u_reset"
    /\ last_bytes_up' = 0
    /\ up_measurements' = <<>>
    /\ total_uploaded_bytes_counter' = 0
    /\ pc' = "u_sample"
    /\ UNCHANGED <<ctlVars_but_pc, downVars, up_deadline, up_handles,
                   bytes_up, up_spawned, up_joined, up_transferred>>

\* 437-487: sample the counter, decide on scaling.  A decision to scale
\* beyond MaxThreads threads is not explored.
UpSample ==
    /\ pc = "u_sample"
    /\ LET loaded == total_uploaded_bytes_counter
           bytes_up_diff == loaded - last_bytes_up
           measurements == Append(up_measurements, bytes_up_diff)
       IN  /\ bytes_up' = loaded
           /\ up_measurements' = measurements
           /\ IF ShouldScale(measurements)
              THEN /\ up_spawned < MaxThreads
                   /\ up_deadline' = up_deadline + DeadlineStep
                   /\ up_handles' = Append(up_handles, UpThread(FALSE, 0))
                   /\ up_spawned' = up_spawned + 1
              ELSE UNCHANGED <<up_deadline, up_handles, up_spawned>>
    /\ pc' = "u_sleep"
    /\ UNCHANGED <<ctlVars_but_pc, downVars, total_uploaded_bytes_counter,
                   last_bytes_up, up_joined, up_transferred>>

\* 489-491: sleep 1000 ms, then remember the counter value of this tick.
UpSleep ==
    /\ pc = "u_sleep"
    /\ \E d \in SleepSecs : now' = now + d
    /\ last_bytes_up' = bytes_up
    /\ pc' = "u_check"
    /\ UNCHANGED <<exit_signal, current_down_speed, downVars,
                   total_uploaded_bytes_counter, up_deadline, up_handles,
                   bytes_up, up_measurements, up_spawned, up_joined,
                   up_transferred>>

\* Mutant: the loop is left as soon as the clock has reached the deadline.
UpCheckDeadline_AtDeadline ==
    /\ pc = "u_check"
    /\ IF now >= up_deadline
       THEN exit_signal' = TRUE /\ pc' = "u_join"
       ELSE exit_signal' = exit_signal /\ pc' = "u_sample"
    /\ UNCHANGED <<now, current_down_speed, downVars, upVars>>

\* 494-497: past the deadline, raise the exit signal and leave the loop.
UpCheckDeadline ==
    /\ pc = "u_check"
    /\ IF now > up_deadline
       THEN exit_signal' = TRUE /\ pc' = "u_join"
       ELSE exit_signal' = exit_signal /\ pc' = "u_sample"
    /\ UNCHANGED <<now, current_down_speed, downVars, upVars>>

\* 502-504: handle.join().expect(..) on the next handle; then the run is
\* complete (506).
UpJoin ==
    /\ pc = "u_join"
    /\ up_handles # <<>>
    /\ Head(up_handles).pc \in Ended
    /\ IF Head(up_handles).pc = "panicked"
       THEN /\ pc' = "panicked"
            /\ UNCHANGED <<up_handles, up_joined>>
       ELSE /\ up_handles' = Tail(up_handles)
            /\ up_joined' = up_joined + 1
            /\ pc' = IF Tail(up_handles) = <<>> THEN "complete" ELSE "u_join"
    /\ UNCHANGED <<ctlVars_but_pc, downVars, total_uploaded_bytes_counter,
                   up_deadline, last_bytes_up, bytes_up, up_measurements,
                   up_spawned, up_transferred>>

(***************************************************************************)
(* Upload phase: a worker thread (main.rs 412-427, 465-483) running        *)
(* upload_test (171-191), whose request body is UploadHelper (22-39).      *)
(***************************************************************************)
UpSet(i, t) == up_handles' = [up_handles EXCEPT ![i] = t]

\* Mutant: the helper looks at its quota only and not at the exit signal.
UpReadWithin_IgnoresStop(i, len, budget) ==
    /\ Running
    /\ up_handles[i].pc = "send"
    /\ IF up_handles[i].byte_ctr >= up_handles[i].bytes_to_send
       THEN /\ UpSet(i, [up_handles[i] EXCEPT !.pc = "exit_check"])
            /\ UNCHANGED <<total_uploaded_bytes_counter, up_transferred>>
       ELSE /\ down_transferred + up_transferred + len <= budget
            /\ UpSet(i, [up_handles[i] EXCEPT !.byte_ctr = @ + len])
            /\ total_uploaded_bytes_counter' =
                   total_uploaded_bytes_counter + len
            /\ up_transferred' = up_transferred + len
    /\ UNCHANGED <<ctlVars, downVars, up_deadline, last_bytes_up, bytes_up,
                   up_measurements, up_spawned, up_joined>>

\* UploadHelper::read with a buffer of len bytes (22-39), while the network
\* has moved at most budget bytes.  A read of 0 ends the body; the response
\* is then drained and upload_test returns Ok.
UpReadWithin(i, len, budget) ==
    /\ Running
    /\ up_handles[i].pc = "send"
    /\ IF up_handles[i].byte_ctr >= up_handles[i].bytes_to_send \/ exit_signal
       THEN /\ UpSet(i, [up_handles[i] EXCEPT !.pc = "exit_check"])
            /\ UNCHANGED <<total_uploaded_bytes_counter, up_transferred>>
       ELSE /\ down_transferred + up_transferred + len <= budget
            /\ UpSet(i, [up_handles[i] EXCEPT !.byte_ctr = @ + len])
            /\ total_uploaded_bytes_counter' =
                   total_uploaded_bytes_counter + len
            /\ up_transferred' = up_transferred + len
    /\ UNCHANGED <<ctlVars, downVars, up_deadline, last_bytes_up, bytes_up,
                   up_measurements, up_spawned, up_joined>>

UpRead(i, len) == UpReadWithin(i, len, MaxBytes)

\* 181-185: send() fails (transport error, status of 400 or more) and the
\* expect panics the thread.
UpSendFail(i) ==
    /\ Running
    /\ up_handles[i].pc = "send"
    /\ UpSet(i, [up_handles[i] EXCEPT !.pc = "panicked", !.byte_ctr = 0])
    /\ UNCHANGED <<ctlVars, downVars, total_uploaded_bytes_counter,
                   up_deadline, last_bytes_up, bytes_up, up_measurements,
                   up_spawned, up_joined, up_transferred>>

\* After a session (upload_test returns only Ok, so the Err arm of 417-419
\* and 471-474 is never taken): an initial thread returns when the clock is past the
\* up_deadline it captured (423-425); a thread spawned by scaling returns on
\* the exit signal (478-481).  Otherwise the next session starts, with a
\* new UploadHelper (174-179).
UpExitCheck(i) ==
    /\ Running
    /\ up_handles[i].pc = "exit_check"
    /\ LET leave == IF up_handles[i].initial
                    THEN now > up_handles[i].up_deadline
                    ELSE exit_signal
       IN  UpSet(i, [up_handles[i] EXCEPT
                       !.pc = IF leave THEN "returned" ELSE "send",
                       !.byte_ctr = 0])
    /\ UNCHANGED <<ctlVars, downVars, total_uploaded_bytes_counter,
                   up_deadline, last_bytes_up, bytes_up, up_measurements,
                   up_spawned, up_joined, up_transferred>>

NextUpPhase ==
    \/ UpSpawnInitial
    \/ UpReset
    \/ UpSample
    \/ UpSleep
    \/ UpCheckDeadline
    \/ UpJoin
    \/ \E i \in DOMAIN up_handles, len \in BufLens : UpRead(i, len)
    \/ \E i \in DOMAIN up_handles : UpSendFail(i)
    \/ \E i \in DOMAIN up_handles : UpExitCheck(i)

NextUp == UpInit \/ NextUpPhase

Next == NextDown \/ NextUp

Spec == Init /\ [][Next]_vars

(***************************************************************************)
(* PhaseSpec: each phase on its own, from its first statement to the end   *)
(* of its join loop, with a main thread that is always scheduled again: a  *)
(* step of the main thread that stays possible is eventually taken (the    *)
(* sleep of 382 and 489 ends, a join on an ended thread returns).  Nothing *)
(* is assumed of the worker threads.  The upload phase starts after a      *)
(* download phase of 13 ticks in which nothing was transferred.            *)
(***************************************************************************)
UploadStart ==
    /\ pc = "u_spawn"
    /\ now = BaseDuration + 1
    /\ exit_signal = FALSE
    /\ total_downloaded_bytes_counter = 0
    /\ total_uploaded_bytes_counter = 0
    /\ current_down_speed = 0
    /\ down_deadline = 0 + BaseDuration
    /\ down_handles = <<>>
    /\ last_bytes_down = 0
    /\ bytes_down = 0
    /\ down_measurements = [i \in 1..(BaseDuration + 1) |-> 0]
    /\ up_deadline = (BaseDuration + 1) + BaseDuration
    /\ up_handles = <<>>
    /\ last_bytes_up = 0
    /\ bytes_up = 0
    /\ up_measurements = <<>>
    /\ down_spawned = download_thread_count
    /\ down_joined = download_thread_count
    /\ down_transferred = 0
    /\ up_spawned = 0 /\ up_joined = 0 /\ up_transferred = 0

PhaseInit == Init \/ UploadStart

PhaseNext == NextDown \/ NextUpPhase

MainThread ==
    \/ DownSpawnInitial \/ DownReset \/ DownSample \/ DownSleep
    \/ DownCheckDeadline \/ DownJoin
    \/ UpSpawnInitial \/ UpReset \/ UpSample \/ UpSleep
    \/ UpCheckDeadline \/ UpJoin

PhaseSpec == PhaseInit /\ [][PhaseNext]_vars /\ WF_vars(MainThread)

(***************************************************************************)
(* TrendSpec: the scaling decision on histories of larger samples.  The    *)
(* controller stands at the seventh tick of a phase in which no thread has *)
(* ended; the six samples taken so far and the growth of the counter since *)
(* the last tick are drawn from TrendSamples, and the tick is taken.       *)
(***************************************************************************)
Sum6(h) == h[1] + h[2] + h[3] + h[4] + h[5] + h[6]

Repeat(x, n) == [i \in 1..n |-> x]

\* The seventh tick of the download phase.
TrendInitDown(h, s) ==
    /\ pc = "d_sample"
    /\ now = 6
    /\ exit_signal = FALSE
    /\ total_downloaded_bytes_counter = Sum6(h) + s
    /\ total_uploaded_bytes_counter = 0
    /\ current_down_speed = h[6]
    /\ down_deadline = 0 + BaseDuration
    /\ down_handles = Repeat(DownThread, download_thread_count)
    /\ last_bytes_down = Sum6(h)
    /\ bytes_down = Sum6(h)
    /\ down_measurements = h
    /\ up_deadline = 0
    /\ up_handles = <<>>
    /\ last_bytes_up = 0
    /\ bytes_up = 0
    /\ up_measurements = <<>>
    /\ down_spawned = download_thread_count /\ down_joined = 0
    /\ down_transferred = Sum6(h) + s
    /\ up_spawned = 0 /\ up_joined = 0 /\ up_transferred = 0

\* The seventh tick of the upload phase, after a download phase of 13 ticks
\* in which nothing was transferred.
TrendInitUp(h, s) ==
    /\ pc = "u_sample"
    /\ now = (BaseDuration + 1) + 6
    /\ exit_signal = FALSE
    /\ total_downloaded_bytes_counter = 0
    /\ total_uploaded_bytes_counter = Sum6(h) + s
    /\ current_down_speed = 0
    /\ down_deadline = 0 + BaseDuration
    /\ down_handles = <<>>
    /\ last_bytes_down = 0
    /\ bytes_down = 0
    /\ down_measurements = Repeat(0, BaseDuration + 1)
    /\ up_deadline = (BaseDuration + 1) + BaseDuration
    /\ up_handles = Repeat(UpThread(TRUE, (BaseDuration + 1) + BaseDuration),
                           upload_thread_count)
    /\ last_bytes_up = Sum6(h)
    /\ bytes_up = Sum6(h)
    /\ up_measurements = h
    /\ down_spawned = download_thread_count
    /\ down_joined = download_thread_count
    /\ down_transferred = 0
    /\ up_spawned = upload_thread_count /\ up_joined = 0
    /\ up_transferred = Sum6(h) + s

TrendInit ==
    \E h \in [1..6 -> TrendSamples], s \in TrendSamples :
        TrendInitDown(h, s) \/ TrendInitUp(h, s)

TrendNext == DownSample \/ UpSample

TrendSpec == TrendInit /\ [][TrendNext]_vars

(***************************************************************************)
(* ReadSpec: UploadHelper::read on sessions of every quota up to           *)
(* QuotaBytes and buffers of the lengths in ReadBufLens.  The upload       *)
(* threads have just started their sessions; the controller stands either  *)
(* before its first tick or, the exit signal raised, before its join loop  *)
(* after a phase of 13 ticks in which nothing was transferred.             *)
(***************************************************************************)
ReadQuotas == 1..QuotaBytes

ReadBufLens == {1, 3, 4}

\* More than the sessions of ReadSpec can supply.
ReadBudget == upload_thread_count * 2 * QuotaBytes

ReadInit ==
    \E q \in [1..upload_thread_count -> ReadQuotas], stop \in BOOLEAN :
        /\ pc = IF stop THEN "u_join" ELSE "u_sample"
        /\ now = (BaseDuration + 1) + (IF stop THEN BaseDuration + 1 ELSE 0)
        /\ exit_signal = stop
        /\ total_downloaded_bytes_counter = 0
        /\ total_uploaded_bytes_counter = 0
        /\ current_down_speed = 0
        /\ down_deadline = 0 + BaseDuration
        /\ down_handles = <<>>
        /\ last_bytes_down = 0
        /\ bytes_down = 0
        /\ down_measurements = Repeat(0, BaseDuration + 1)
        /\ up_deadline = (BaseDuration + 1) + BaseDuration
        /\ up_handles =
               [i \in 1..upload_thread_count |->
                   [UpThread(TRUE, (BaseDuration + 1) + BaseDuration)
                       EXCEPT !.bytes_to_send = q[i]]]
        /\ last_bytes_up = 0
        /\ bytes_up = 0
        /\ up_measurements = IF stop THEN Repeat(0, BaseDuration + 1) ELSE <<>>
        /\ down_spawned = download_thread_count
        /\ down_joined = download_thread_count
        /\ down_transferred = 0
        /\ up_spawned = upload_thread_count /\ up_joined = 0
        /\ up_transferred = 0

ReadNext ==
    \E i \in DOMAIN up_handles, len \in ReadBufLens :
        UpReadWithin(i, len, ReadBudget)

ReadSpec == ReadInit /\ [][ReadNext]_vars

(***************************************************************************)
(* Properties.                                                             *)
(***************************************************************************)
DownloadPcs == {"d_spawn", "d_reset", "d_sample", "d_sleep", "d_check", "d_join"}
AfterDownload == {"u_init", "u_spawn", "u_reset", "u_sample", "u_sleep",
                  "u_check", "u_join", "complete"}
SamplingPcs == {"d_spawn", "d_reset", "d_sample", "d_sleep", "d_check",
                "u_spawn", "u_reset", "u_sample", "u_sleep", "u_check"}

StopSet == ~exit_signal /\ exit_signal'
StopReset == exit_signal /\ ~exit_signal'

\* Every download thread ever spawned has been joined.
AllDownJoined ==
    /\ down_handles = <<>>
    /\ down_joined = down_spawned
    /\ down_spawned >= download_thread_count
    /\ pc \notin DownloadPcs

\* C1: no step of the upload phase (spawning an upload thread, taking the
\* upload deadline, re-initialising the exit signal, writing the upload
\* counter) happens before every download thread that was ever spawned,
\* those added by scaling included, has been joined.
C1_UploadAfterDownloadJoined ==
    [][(\/ up_spawned' # up_spawned
        \/ up_handles' # up_handles
        \/ up_deadline' # up_deadline
        \/ StopReset
        \/ total_uploaded_bytes_counter' # total_uploaded_bytes_counter
        \/ up_measurements' # up_measurements)
       => AllDownJoined]_vars

\* C1 witness: an upload thread exists after a download phase whose scaled
\* thread was joined with the initial ones.
C1_Witness ==
    /\ up_spawned > 0
    /\ down_spawned = download_thread_count + 1
    /\ down_joined = down_spawned

\* C2: the exit signal goes from false to true only in the controller's
\* deadline check, which leaves the sampling loop, so once per phase; it goes
\* back to false only in the controller's step between the phases, when
\* every download thread is joined and no upload thread exists; it is false
\* throughout the sampling of a phase and true from the end of the sampling
\* to the end of the phase.
C2_StopSignalOncePerPhase ==
    [][/\ StopSet => /\ pc \in {"d_check", "u_check"}
                     /\ pc' \in {"d_join", "u_join"}
       /\ StopReset => /\ pc = "u_init" /\ pc' = "u_spawn"
                       /\ down_handles = <<>> /\ down_joined = down_spawned
                       /\ up_handles = <<>> /\ up_spawned = 0
       /\ pc' \in {"d_join", "u_init", "u_join", "complete"} => exit_signal'
       /\ pc' \in SamplingPcs => ~exit_signal']_vars

\* C2 witness: the signal is raised in the upload phase, after it was raised
\* in the download phase and reset between the phases.
C2_Witness ==
    /\ pc = "u_join"
    /\ exit_signal
    /\ down_joined = down_spawned
    /\ up_spawned >= upload_thread_count

\* C3 (as claimed): when a phase is complete its counter equals the bytes the
\* threads of the phase transferred.
C3_CounterIsSumOfTransfers ==
    /\ pc \in AfterDownload => total_downloaded_bytes_counter = down_transferred
    /\ pc = "complete" => total_uploaded_bytes_counter = up_transferred

\* C4 (as claimed): the counter of a phase never decreases while a thread of
\* the phase is spawned and not joined.
C4_CounterMonotonicWhileRunning ==
    [][/\ total_downloaded_bytes_counter' < total_downloaded_bytes_counter
            => down_handles = <<>>
       /\ total_uploaded_bytes_counter' < total_uploaded_bytes_counter
            => up_handles = <<>>]_vars

\* The means of the last three samples and of the three before them differ
\* by at least 20%: 5 * sum of the last three >= 6 * sum of the previous.
GrowthAtLeast20(m) ==
    LET n == Len(m)
    IN  5 * (m[n - 2] + m[n - 1] + m[n]) >= 6 * (m[n - 5] + m[n - 4] + m[n - 3])

\* C5 (as claimed): a tick spawns a thread only when the history has more
\* than 6 samples and the mean of the last 3 is at least 20% above the mean
\* of the 3 before them.
C5_ScalesOnlyAt20Percent ==
    [][/\ down_spawned' > down_spawned /\ pc = "d_sample"
            => Len(down_measurements') > 6 /\ GrowthAtLeast20(down_measurements')
       /\ up_spawned' > up_spawned /\ pc = "u_sample"
            => Len(up_measurements') > 6 /\ GrowthAtLeast20(up_measurements')]_vars

\* A history with every sample multiplied by k.
Times(m, k) == [i \in DOMAIN m |-> k * m[i]]

\* The two window sums are multiples of 3, so the integer averages are the
\* means.
ExactAverages(m) ==
    LET n == Len(m)
    IN  /\ (m[n - 2] + m[n - 1] + m[n]) % 3 = 0
        /\ (m[n - 5] + m[n - 4] + m[n - 3]) % 3 = 0

\* The history of the tick just taken, and whether the tick scaled.
TickTaken == pc \in {"d_sleep", "u_sleep"}
TickHistory == IF pc = "d_sleep" THEN down_measurements ELSE up_measurements
TickScaled ==
    IF pc = "d_sleep" THEN down_spawned > download_thread_count
                      ELSE up_spawned > upload_thread_count

\* C6 (as claimed): the decision a tick took is the decision on the same
\* history multiplied by any k in 1..MaxFactor.
C6_ScaleInvariant ==
    TickTaken =>
        \A k \in 1..MaxFactor : TickScaled <=> ShouldScale(Times(TickHistory, k))

\* C6 (amended): the same, for the histories whose two window sums are
\* multiples of 3.
C6_ScaleInvariantExact ==
    (TickTaken /\ ExactAverages(TickHistory)) =>
        \A k \in 1..MaxFactor : TickScaled <=> ShouldScale(Times(TickHistory, k))

\* C6 witness: a tick scaled on a history with exact, non-zero averages.
C6_Witness ==
    /\ TickTaken /\ TickScaled
    /\ ExactAverages(TickHistory)
    /\ TickHistory[2] + TickHistory[3] + TickHistory[4] >= 3000

\* C7 (as claimed): no error of a worker aborts the run: the main thread
\* never panics.
C7_WorkerErrorNeverAborts == pc # "panicked"

\* C8 (as claimed): once the exit signal is set the run cannot stop short of
\* the end of the phase: a state with the signal set in which nothing can
\* move is the completed run.
C8_DrainingCompletes ==
    (exit_signal /\ ~ENABLED Next) => pc = "complete"

\* C9 (as claimed): a thread that met no error has returned only if the exit
\* signal is set.
C9_NoReturnBeforeStop ==
    /\ \A i \in DOMAIN down_handles :
           down_handles[i].pc = "returned" => exit_signal
    /\ \A i \in DOMAIN up_handles :
           up_handles[i].pc = "returned" => exit_signal

\* C10: when a phase is complete, every handle pushed in it, by the spawn
\* loop or by a scaling decision, has been joined and none is left.
C10_AllHandlesJoined ==
    /\ pc \in AfterDownload =>
           down_handles = <<>> /\ down_joined = down_spawned
    /\ pc = "complete" =>
           up_handles = <<>> /\ up_joined = up_spawned

\* C10 witness: the run is complete and the upload phase joined a thread
\* added by scaling.
C10_Witness ==
    /\ pc = "complete"
    /\ up_spawned = upload_thread_count + 1
    /\ up_joined = up_spawned

\* C11: a download session panics ("no bytes downloaded") exactly when a read
\* returns 0 bytes and the session has sunk no byte before; a read of 0 bytes
\* after data ends the session normally; the exit signal seen at the top of
\* the read loop ends the session without a panic.  A step of a thread at
\* "copy" that leaves the counter as it was and is not the error return is a
\* read of 0 bytes.
C11_ViolationOnlyOnEmptyFirstRead ==
    [][Len(down_handles') = Len(down_handles) =>
         \A i \in DOMAIN down_handles :
            LET t == down_handles[i]
                u == down_handles'[i]
                empty_read ==
                    /\ t.pc = "copy"
                    /\ u.pc \notin {"copy", "errored"}
                    /\ total_downloaded_bytes_counter' =
                           total_downloaded_bytes_counter
            IN  /\ (t.pc = "copy" /\ u.pc = "panicked")
                       <=> (empty_read /\ t.total_bytes_sank = 0)
                /\ (t.pc = "copy" /\ u.pc = "exit_check")
                       <=> (empty_read /\ t.total_bytes_sank > 0)
                /\ t.pc = "loop" => u.pc \in {"loop", "copy", "exit_check"}
                /\ (t.pc = "loop" /\ u.pc = "exit_check") => exit_signal
      ]_vars

\* A session that sank bytes was ended by an empty read, before the stop.
C11_Witness ==
    /\ ~exit_signal
    /\ \E i \in DOMAIN down_handles : down_handles[i].pc = "exit_check"
    /\ \E i \in DOMAIN down_handles : down_handles[i].pc = "panicked"

DownPanicked == \E i \in DOMAIN down_handles : down_handles[i].pc = "panicked"
UpPanicked == \E i \in DOMAIN up_handles : up_handles[i].pc = "panicked"
TickStep ==
    \/ pc = "d_sample" /\ pc' = "d_sleep"
    \/ pc = "u_sample" /\ pc' = "u_sleep"

\* C12: once a thread of the phase has panicked the controller takes no
\* further tick of that phase, and the next phase is not started.
C12_PhaseStopsOnPanic ==
    [][/\ (DownPanicked \/ UpPanicked) => ~TickStep
       /\ DownPanicked => pc' \notin AfterDownload
      ]_vars

\* C13: a tick that decides to scale extends the deadline of its phase by
\* exactly one second and appends exactly one handle; a tick that does not
\* leaves both as they were.  No other step of a sampling loop changes the
\* deadline or adds a handle, so the deadline never decreases and a tick
\* adds at most one thread.
C13_ScalingExtendsByOne ==
    [][/\ (pc = "d_sample" /\ pc' = "d_sleep") =>
              IF ShouldScale(down_measurements')
              THEN /\ down_deadline' = down_deadline + DeadlineStep
                   /\ Len(down_handles') = Len(down_handles) + 1
                   /\ SubSeq(down_handles', 1, Len(down_handles)) = down_handles
              ELSE /\ down_deadline' = down_deadline
                   /\ down_handles' = down_handles
       /\ (pc = "u_sample" /\ pc' = "u_sleep") =>
              IF ShouldScale(up_measurements')
              THEN /\ up_deadline' = up_deadline + DeadlineStep
                   /\ Len(up_handles') = Len(up_handles) + 1
                   /\ SubSeq(up_handles', 1, Len(up_handles)) = up_handles
              ELSE /\ up_deadline' = up_deadline
                   /\ up_handles' = up_handles
       /\ (pc \in {"d_sample", "d_sleep", "d_check"} /\ ~TickStep) =>
              /\ down_deadline' = down_deadline
              /\ Len(down_handles') = Len(down_handles)
       /\ (pc \in {"u_sample", "u_sleep", "u_check"} /\ ~TickStep) =>
              /\ up_deadline' = up_deadline
              /\ Len(up_handles') = Len(up_handles)
       /\ down_deadline' >= down_deadline
       /\ up_deadline' >= up_deadline
      ]_vars

\* A download tick has scaled: one second and one thread more.
C13_Witness ==
    /\ pc = "d_sleep"
    /\ ShouldScale(down_measurements)
    /\ down_deadline = BaseDuration + DeadlineStep
    /\ Len(down_handles) = download_thread_count + 1

\* C17: the bytes an upload session has supplied to the request body never
\* exceed the quota of the session.
C17_SuppliedWithinQuota ==
    \A i \in DOMAIN up_handles :
        up_handles[i].byte_ctr <= up_handles[i].bytes_to_send

\* C18: a call of UploadHelper::read either returns 0 and changes neither
\* the byte_ctr of the session nor the shared counter, and it does so
\* whenever byte_ctr has reached the quota or the exit signal is set, or it
\* returns n > 0 and adds n to both.
C18_ReadZeroOrAddsBoth ==
    [][Len(up_handles') = Len(up_handles) =>
       \A i \in DOMAIN up_handles :
          LET t == up_handles[i]
              u == up_handles'[i]
              n == u.byte_ctr - t.byte_ctr
          IN  (t.pc = "send" /\ u # t /\ u.pc # "panicked") =>
                 IF t.byte_ctr >= t.bytes_to_send \/ exit_signal
                 THEN /\ u = [t EXCEPT !.pc = "exit_check"]
                      /\ total_uploaded_bytes_counter' =
                             total_uploaded_bytes_counter
                 ELSE /\ n > 0
                      /\ u = [t EXCEPT !.byte_ctr = @ + n]
                      /\ total_uploaded_bytes_counter' =
                             total_uploaded_bytes_counter + n
      ]_vars

\* One session was ended by its quota while another is under way.
C18_Witness ==
    /\ ~exit_signal
    /\ \E i, j \in DOMAIN up_handles :
           /\ up_handles[i].pc = "exit_check"
           /\ up_handles[i].byte_ctr >= up_handles[i].bytes_to_send
           /\ up_handles[j].pc = "send"
           /\ up_handles[j].byte_ctr > 0
           /\ up_handles[j].byte_ctr < up_handles[j].bytes_to_send
           /\ total_uploaded_bytes_counter =
                  up_handles[i].byte_ctr + up_handles[j].byte_ctr

\* The tick the controller is about to take decides to scale and the phase
\* has spawned MaxThreads threads: beyond this tick the model does not go.
DownTickUnexplored ==
    /\ pc = "d_sample"
    /\ down_spawned >= MaxThreads
    /\ ShouldScale(Append(down_measurements,
                          total_downloaded_bytes_counter - last_bytes_down))
UpTickUnexplored ==
    /\ pc = "u_sample"
    /\ up_spawned >= MaxThreads
    /\ ShouldScale(Append(up_measurements,
                          total_uploaded_bytes_counter - last_bytes_up))

RECURSIVE SumSeq(_)
SumSeq(m) == IF m = <<>> THEN 0 ELSE m[1] + SumSeq(Tail(m))

Last(m) == m[Len(m)]

C16_AtMostOneReadAfterStop ==
    [][(exit_signal /\ Len(down_handles') = Len(down_handles)) =>
         /\ \A i \in DOMAIN down_handles :
               LET t == down_handles[i]
                   u == down_handles'[i]
               IN  /\ u.pc = "copy" => t.pc = "copy"
                   /\ u.pc = "call" => t.pc = "call"
                   /\ (t.pc = "loop" /\ u # t) => u.pc = "exit_check"
                   /\ (t.pc = "exit_check" /\ u # t) => u.pc = "returned"
                   /\ t.pc \in Ended => u = t
         /\ total_downloaded_bytes_counter' # total_downloaded_bytes_counter =>
               \E i \in DOMAIN down_handles :
                   /\ down_handles[i].pc = "copy"
                   /\ down_handles'[i].pc = "loop"
      ]_vars

\* The exit signal was set while one thread had a read in flight and another
\* was about to open a session.
C16_Witness ==
    /\ exit_signal
    /\ pc = "d_join"
    /\ \E i \in DOMAIN down_handles : down_handles[i].pc = "copy"
    /\ \E i \in DOMAIN down_handles : down_handles[i].pc = "call"

\* C19: the subtraction of a tick never underflows: when the controller is
\* about to load the counter, the counter is at least the value remembered
\* from the previous tick (0 before the first tick), and so no sample of
\* either history is negative.
C19_SampleNeverUnderflows ==
    /\ pc = "d_sample" => total_downloaded_bytes_counter >= last_bytes_down
    /\ pc = "u_sample" => total_uploaded_bytes_counter >= last_bytes_up
    /\ \A k \in DOMAIN down_measurements : down_measurements[k] >= 0
    /\ \A k \in DOMAIN up_measurements : up_measurements[k] >= 0

\* Ticks were taken after the store of 316 had wiped what a thread had
\* added to the counter before it.
C19_Witness ==
    /\ pc = "d_sleep"
    /\ down_transferred > total_downloaded_bytes_counter
    /\ Len(down_measurements) > 1

\* C20: the up_deadline an initial upload thread captured is never above the
\* controller's up_deadline, and once the exit signal is set in the upload
\* phase the clock is past every captured deadline; so the exit check of an
\* initial thread, which compares the clock with the captured deadline,
\* returns whenever the exit signal is set.
C20_CapturedDeadlinePassed ==
    [][/\ \A i \in DOMAIN up_handles' :
             up_handles'[i].initial =>
                 /\ up_handles'[i].up_deadline <= up_deadline'
                 /\ exit_signal' => now' > up_handles'[i].up_deadline
       /\ (exit_signal /\ Len(up_handles') = Len(up_handles)) =>
             \A i \in DOMAIN up_handles :
                 (/\ up_handles[i].initial
                  /\ up_handles[i].pc = "exit_check"
                  /\ up_handles'[i] # up_handles[i])
                     => up_handles'[i].pc = "returned"
      ]_vars

\* An initial upload thread has returned under the exit signal, the
\* controller's deadline having moved past the one the thread captured.
C20_Witness ==
    /\ exit_signal
    /\ pc = "u_join"
    /\ \E i \in DOMAIN up_handles :
           /\ up_handles[i].initial
           /\ up_handles[i].pc = "returned"
           /\ up_handles[i].up_deadline < up_deadline

====
